---- MODULE Spec2Model ----
(***************************************************************************)
(* Transaction store of the personal-finance dashboard.                    *)
(*                                                                         *)
(* The repository holds four iterations of the same React component:       *)
(*   "basic"     src/unnamed/part_000   lines   16-468  (no validation)    *)
(*   "validated" src/src/App_backup2.js lines   16-530  (alert validation) *)
(*   "multitype" src/src/App_backup2.js lines  550-1327 (income/investment)*)
(*   "latest"    src/unnamed/part_000   lines  524-1490 (notifications)    *)
(* The variant is fixed at start-up; every handler below is translated     *)
(* per variant.  A handler and the storage effect its state change         *)
(* triggers form one step.                                                 *)
(*                                                                         *)
(* Spec explores the handlers of the store (add, edit, delete, clear,      *)
(* export, import, reload) with the view controls at their defaults and    *)
(* records what each handler tells the user in `reported`.  ViewSpec       *)
(* explores the view controls (month, type, search, sort) over the         *)
(* collections a session can find in storage when it starts.  Four         *)
(* further specifications follow the latest variant: RoundTripSpec the     *)
(* import of a file just exported, WeekSpec the weekly chart over many     *)
(* weeks, NotifySpec the life of a notification on screen, BudgetSpec the  *)
(* budget alert next to the budget card.                                   *)
(***************************************************************************)
EXTENDS Integers, Sequences, FiniteSets, TLC

VARIABLES
    variant,    \* which of the four components is running
    now,        \* Date.now(), in clock ticks
    expenses,   \* the `expenses` state: sequence of transaction records
    stored,     \* localStorage entry under the key "expenses"
    editingId,  \* the `editingId` state (NoId models null)
    editForm,   \* the `editForm` state
    reported,   \* what the last handler told the user (alert / notification)
    last,       \* history: the last handler that ran, with its argument
    edits,      \* history: input events received by the edit form so far
    selectedMonth,  \* the `selectedMonth` state: "" or "01".."12"
    search,     \* the `search` state
    sortBy,     \* the `sortBy` state
    sortDir,    \* the `sortDir` state
    filterType, \* the `filterType` state (multi-type variant)
    timeZone,   \* the browser's time zone: where local midnight lies
    reader,     \* the file a FileReader is reading for importData, if any
    monthlyBudget,  \* the `monthlyBudget` state (latest variant)
    timeRange,  \* the `timeRange` state: "weekly" or "monthly" (latest)
    notification,   \* the `notification` state (latest variant)
    timers      \* pending setTimeout callbacks of showNotification, in the
                \* order they were started, each with the tick it is due at

\* the controls of the view, and what no handler of the store touches
viewParams == <<selectedMonth, search, sortBy, sortDir, filterType>>
panel == <<monthlyBudget, timeRange, notification, timers>>
session == <<viewParams, timeZone, reader, panel>>

vars == <<variant, now, expenses, stored, editingId, editForm, reported, last,
          edits, selectedMonth, search, sortBy, sortDir, filterType, timeZone,
          reader, monthlyBudget, timeRange, notification, timers>>

-----------------------------------------------------------------------------
(* Bounds *)

MaxLen == 2     \* longest collection explored
MaxNow == 2     \* last clock tick explored
MaxEdits == 1   \* input events of the edit form explored
MaxView == 3    \* longest saved collection the view is computed over
MaxWeeks == 13  \* consecutive weeks the weekly chart is computed over
MaxClock == 6   \* last second followed while notifications are on screen
MaxTimers == 3  \* hide timers pending at a time

-----------------------------------------------------------------------------
(* JavaScript values *)

Variants == {"basic", "validated", "multitype", "latest"}

NoId == 0               \* editingId === null
NoTime == 0             \* createdAt / updatedAt absent
Undefined == "<undefined>"  \* a property the object does not have

Str(x) == [k |-> "string", s |-> x, n |-> 0]
Num(x) == [k |-> "number", s |-> "", n |-> x]
NaN == [k |-> "NaN", s |-> "", n |-> 0]
Null == [k |-> "null", s |-> "", n |-> 0]

\* Number(v): numbers stay, strings are parsed ("" is 0), anything else NaN
Number(v) ==
    IF v.k = "number" THEN v
    ELSE IF v.k = "string" THEN
        CASE v.s = ""   -> Num(0)
          [] v.s = "0"  -> Num(0)
          [] v.s = "-3" -> Num(-3)
          [] v.s = "5"  -> Num(5)
          [] v.s = "7"  -> Num(7)
          [] OTHER      -> NaN
    ELSE IF v.k = "null" THEN Num(0)
    ELSE NaN

isNaN(v) == v.k = "NaN"

\* (n).toString() on the numbers of the model
toString(v) ==
    IF v.k = "number" THEN
        CASE v.n = 0  -> Str("0")
          [] v.n = -3 -> Str("-3")
          [] v.n = 5  -> Str("5")
          [] v.n = 7  -> Str("7")
          [] OTHER    -> Str("?")
    ELSE v

\* !v is false exactly for truthy v
Truthy(v) ==
    CASE v.k = "string" -> v.s # ""
      [] v.k = "number" -> v.n # 0
      [] OTHER          -> FALSE

-----------------------------------------------------------------------------
(* Dates are the strings an <input type="date"> yields; the code compares  *)
(* them as strings.                                                        *)

DateStrings == {"", "2024-02-15", "2024-03-01"}

\* position of each date string of the model in JavaScript's string order
LexRank(d) ==
    CASE d = ""            -> 0
      [] d = "2023-02-10"  -> 1
      [] d = "2024-01-05"  -> 2
      [] d = "2024-02-01"  -> 3
      [] d = "2024-02-10"  -> 4
      [] d = "2024-02-15"  -> 5
      [] d = "2024-03-01"  -> 6

\* the JavaScript expression  a > b  on two strings
StrGreater(a, b) == LexRank(a) > LexRank(b)

\* new Date().toISOString().split("T")[0]; the explored ticks lie in one day
Today(t) == "2024-02-15"

-----------------------------------------------------------------------------
(* Form inputs *)

TitleInputs == {"", "a"}
AmountInputs == {"", "0", "5"}
CategoryOptions == {"", "Food", "Other"}    \* <select> of the add form
Types == {"expense", "income", "investment"}
NotesInputs == {"", "n"}

\* Contents of the add form when the Add button is pressed: a complete form,
\* with or without a custom category, and each way of getting one field wrong.
AddForms ==
    LET filled == [title |-> "a", amount |-> "5", date |-> "2024-02-15",
                   category |-> "Food", customCategory |-> ""]
    IN  {filled,
         [filled EXCEPT !.category = "Other", !.customCategory = "Food"],
         [filled EXCEPT !.title = ""],
         [filled EXCEPT !.amount = ""],
         [filled EXCEPT !.amount = "0"],
         [filled EXCEPT !.date = ""],
         [filled EXCEPT !.date = "2024-03-01"],
         [filled EXCEPT !.category = ""],
         [filled EXCEPT !.category = "Other"]}

EmptyForm(v) ==
    [title |-> "", amount |-> Str(""), date |-> "", category |-> "",
     type  |-> IF v = "multitype" THEN "expense" ELSE Undefined,
     notes |-> IF v = "latest" THEN "" ELSE Undefined]

-----------------------------------------------------------------------------
(* Reports to the user *)

NoReport == [via |-> "none", type |-> "", message |-> ""]
Alert(m) == [via |-> "alert", type |-> "", message |-> m]
\* showNotification(message, type): setNotification({show: true, message, type})
showNotification(m, t) == [via |-> "notification", type |-> t, message |-> m]

-----------------------------------------------------------------------------
(* Persistence *)

\* JSON.stringify of one value: NaN is written as null
JSONValue(v) == IF v.k = "NaN" THEN Null ELSE v

\* JSON.stringify(expenses): the records in order, field by field
JSONstringify(seq) ==
    [i \in 1..Len(seq) |-> [seq[i] EXCEPT !.amount = JSONValue(seq[i].amount)]]

\* useEffect(() => localStorage.setItem("expenses", JSON.stringify(expenses)),
\*           [expenses]) -- runs after every setExpenses
StorageEffect(seq) == [present |-> TRUE, text |-> JSONstringify(seq)]

\* localStorage.removeItem("expenses")
RemovedItem == [present |-> FALSE, text |-> <<>>]

\* JSON.parse(saved): the text is kept as the sequence of JSON values it
\* denotes, so what stringify cannot write (NaN, undefined) is gone already
JSONparse(text) == text

\* mutation of Load: every record is given the type "expense"
Load_DefaultsEveryType(v, item) ==
    IF v = "multitype"
    THEN [i \in 1..Len(item.text) |-> [item.text[i] EXCEPT !.type = "expense"]]
    ELSE item.text

\* useState(() => { const saved = localStorage.getItem("expenses");
\*                  return saved ? JSON.parse(saved) : []; })
\* multi-type: data.map(exp => ({ ...exp, type: exp.type || "expense" }))
Load(v, item) ==
    LET data == IF item.present THEN JSONparse(item.text) ELSE <<>>
    IN  IF v = "multitype"
        THEN [i \in 1..Len(data) |->
                [data[i] EXCEPT !.type = IF @ \in {Undefined, ""}
                                         THEN "expense" ELSE @]]
        ELSE data

\* useState("") ... of the view controls
ViewDefaults(v) ==
    [selectedMonth |-> "", search |-> "",
     sortBy |-> IF v = "latest" THEN "date" ELSE "",
     sortDir |-> IF v = "latest" THEN "desc" ELSE "asc",
     filterType |-> IF v = "multitype" THEN "all" ELSE Undefined]

TimeZones == {"UTC", "west"}    \* west: local midnight is after 00:00 UTC

NoFile == [chosen |-> FALSE, json |-> FALSE, hasExpenses |-> FALSE,
           expenses |-> <<>>, monthlyBudget |-> 0]

\* useState(() => { const saved = localStorage.getItem("monthlyBudget");
\*                  return saved ? JSON.parse(saved) : 10000; })
DefaultBudget == 10000

\* useState({ show: false, message: "", type: "" })
NoNotification == [show |-> FALSE, message |-> "", type |-> ""]

-----------------------------------------------------------------------------
(* Small helpers over the collection *)

Ids(seq) == {seq[i].id : i \in 1..Len(seq)}

Op(name, id, done) == [op |-> name, id |-> id, done |-> done]

TypeOK ==
    /\ variant \in Variants
    /\ now \in 1..MaxNow \/ now \in 1..MaxClock
    /\ Len(expenses) <= MaxLen \/ Len(expenses) <= MaxView
          \/ Len(expenses) <= MaxWeeks + 1
    /\ editingId \in 0..MaxNow

\* What the key "expenses" holds when the component mounts: nothing, or
\* (multi-type) a collection saved by the validated variant at an earlier
\* tick, whose records have no type.
LegacyItem ==
    [present |-> TRUE,
     text |-> <<[id |-> 1, title |-> "a", amount |-> Num(5),
                 date |-> "2024-02-15", category |-> "Food",
                 type |-> Undefined, notes |-> Undefined,
                 createdAt |-> NoTime, updatedAt |-> NoTime]>>]

\* the state right after mounting: initial useState values, then the
\* storage effect of the first render
Mounted(v, item, t, tz) ==
    /\ variant = v
    /\ now = t
    /\ expenses = Load(v, item)
    /\ stored = StorageEffect(Load(v, item))
    /\ editingId = NoId
    /\ editForm = EmptyForm(v)
    /\ reported = NoReport
    /\ last = Op("init", NoId, FALSE)
    /\ edits = 0
    /\ selectedMonth = ViewDefaults(v).selectedMonth
    /\ search = ViewDefaults(v).search
    /\ sortBy = ViewDefaults(v).sortBy
    /\ sortDir = ViewDefaults(v).sortDir
    /\ filterType = ViewDefaults(v).filterType
    /\ timeZone = tz
    /\ reader = NoFile
    /\ monthlyBudget = DefaultBudget
    /\ timeRange = "monthly"
    /\ notification = NoNotification
    /\ timers = <<>>

Init ==
    \/ \E v \in Variants : Mounted(v, RemovedItem, 1, "UTC")
    \/ Mounted("multitype", LegacyItem, 2, "UTC")

\* the clock advances between two handlers
Tick ==
    /\ now < MaxNow
    /\ now' = now + 1
    /\ UNCHANGED <<session, edits, variant, expenses, stored, editingId, editForm, reported, last>>

-----------------------------------------------------------------------------
(* ADD *)

\* if (!title || !amount || !date || !category)
MissingField(title, amount, date, category) ==
    title = "" \/ ~Truthy(Str(amount)) \/ date = "" \/ category = ""

\* const amountNum = Number(amount);
\* if (isNaN(amountNum) || amountNum <= 0)
AmountInvalid(amount) ==
    LET amountNum == Number(amount) IN isNaN(amountNum) \/ amountNum.n <= 0

\* const today = new Date().toISOString().split('T')[0]; if (date > today)
DateInFuture(date, t) == StrGreater(date, Today(t))

\* const finalCategory = category === "Other" ? customCategory : category;
FinalCategory(category, customCategory) ==
    IF category = "Other" THEN customCategory ELSE category

Record(id, title, amount, date, category, type, notes, createdAt, updatedAt) ==
    [id |-> id, title |-> title, amount |-> amount, date |-> date,
     category |-> category, type |-> type, notes |-> notes,
     createdAt |-> createdAt, updatedAt |-> updatedAt]

\* mutation of AppendRecord: the new record is put in front
AppendRecord_InFront(seq, e) == <<e>> \o seq

\* [...expenses, {...}]
AppendRecord(seq, e) == Append(seq, e)

\* [newExpense, ...prev]
PrependRecord(seq, e) == <<e>> \o seq

\* the handler returned before setExpenses
AddRejected(report) ==
    /\ reported' = report
    /\ last' = Op("addExpense", now, FALSE)
    /\ UNCHANGED <<session, edits, variant, now, expenses, stored, editingId, editForm>>

\* setExpenses(next), then the storage effect
AddAccepted(next, report) ==
    /\ expenses' = next
    /\ stored' = StorageEffect(next)
    /\ reported' = report
    /\ last' = Op("addExpense", now, TRUE)
    /\ UNCHANGED <<session, edits, variant, now, editingId, editForm>>

addExpenseBasic(title, amount, date, category, customCategory) ==
    /\ variant = "basic"
    /\ Len(expenses) < MaxLen
    /\ IF MissingField(title, amount, date, category)
       THEN AddRejected(NoReport)
       ELSE IF FinalCategory(category, customCategory) = ""
       THEN AddRejected(NoReport)
       ELSE AddAccepted(
              AppendRecord(expenses,
                     Record(now, title, Str(amount), date,
                            FinalCategory(category, customCategory),
                            Undefined, Undefined, NoTime, NoTime)),
              NoReport)

addExpenseValidated(title, amount, date, category, customCategory) ==
    /\ variant = "validated"
    /\ Len(expenses) < MaxLen
    /\ IF MissingField(title, amount, date, category)
       THEN AddRejected(NoReport)
       ELSE IF AmountInvalid(Str(amount))
       THEN AddRejected(Alert("Please enter a valid positive amount"))
       ELSE IF DateInFuture(date, now)
       THEN AddRejected(Alert("Cannot add expenses for future dates"))
       ELSE IF FinalCategory(category, customCategory) = ""
       THEN AddRejected(NoReport)
       ELSE AddAccepted(
              AppendRecord(expenses,
                     Record(now, title, Number(Str(amount)), date,
                            FinalCategory(category, customCategory),
                            Undefined, Undefined, NoTime, NoTime)),
              NoReport)

addExpenseMultitype(title, amount, date, category, customCategory, type) ==
    /\ variant = "multitype"
    /\ Len(expenses) < MaxLen
    /\ IF MissingField(title, amount, date, category)
       THEN AddRejected(Alert("Please fill all fields"))
       ELSE IF AmountInvalid(Str(amount))
       THEN AddRejected(Alert("Enter valid amount"))
       ELSE IF DateInFuture(date, now)
       THEN AddRejected(Alert("Cannot add future dates"))
       ELSE IF FinalCategory(category, customCategory) = ""
       THEN AddRejected(Alert("Enter category"))
       ELSE AddAccepted(
              AppendRecord(expenses,
                     Record(now, title, Number(Str(amount)), date,
                            FinalCategory(category, customCategory),
                            type, Undefined, NoTime, NoTime)),
              NoReport)

addExpenseLatest(title, amount, date, category, notes) ==
    /\ variant = "latest"
    /\ Len(expenses) < MaxLen
    /\ IF MissingField(title, amount, date, category)
       THEN AddRejected(showNotification("Please fill in all required fields", "error"))
       ELSE IF AmountInvalid(Str(amount))
       THEN AddRejected(showNotification("Please enter a valid positive amount", "error"))
       ELSE IF DateInFuture(date, now)
       THEN AddRejected(showNotification("Cannot add expenses for future dates", "error"))
       ELSE AddAccepted(
              PrependRecord(expenses,
                     Record(now, title, Number(Str(amount)), date, category,
                            Undefined, notes, now, NoTime)),
              showNotification("Expense added successfully!", "success"))

-----------------------------------------------------------------------------
(* CRUD *)

\* mutation of RemoveId: the filter's test is inverted
RemoveId_Inverted(seq, id) == SelectSeq(seq, LAMBDA e : e.id = id)

\* expenses.filter((e) => e.id !== id)
RemoveId(seq, id) == SelectSeq(seq, LAMBDA e : e.id # id)

\* The delete button of a list item; the item being edited in place shows
\* Save / Cancel instead (the latest variant edits in a modal).
deleteExpense(id, confirmed) ==
    /\ variant # "latest" => id # editingId
    /\ IF variant = "latest" /\ ~confirmed
       THEN /\ reported' = NoReport
            /\ last' = Op("deleteExpense", id, FALSE)
            /\ UNCHANGED <<session, edits, variant, now, expenses, stored, editingId, editForm>>
       ELSE /\ expenses' = RemoveId(expenses, id)
            /\ stored' = StorageEffect(RemoveId(expenses, id))
            /\ reported' = IF variant = "latest"
                           THEN showNotification("Expense deleted", "info")
                           ELSE NoReport
            /\ last' = Op("deleteExpense", id, TRUE)
            /\ UNCHANGED <<session, edits, variant, now, editingId, editForm>>

\* setEditForm({title: e.title, amount: e.amount, date: e.date, ...})
FormOf(v, e) ==
    [title |-> e.title,
     amount |-> IF v = "multitype" THEN toString(e.amount) ELSE e.amount,
     date |-> e.date,
     category |-> e.category,
     type |-> IF v = "multitype" THEN e.type ELSE Undefined,
     notes |-> IF v = "latest"
               THEN (IF e.notes = Undefined THEN "" ELSE e.notes)
               ELSE Undefined]

\* The edit button of the list item at position i.
startEdit(i) ==
    /\ i \in 1..Len(expenses)
    /\ variant # "latest" => expenses[i].id # editingId
    /\ editingId' = expenses[i].id
    /\ editForm' = FormOf(variant, expenses[i])
    /\ reported' = NoReport
    /\ last' = Op("startEdit", expenses[i].id, TRUE)
    /\ UNCHANGED <<session, edits, variant, now, expenses, stored>>

\* The edit form is on screen: in place of the list item whose id is
\* editingId, or (latest) in the modal rendered while editingId is truthy.
EditFormShown ==
    IF variant = "latest" THEN editingId # NoId ELSE editingId \in Ids(expenses)

\* Fields and values of the edit form's inputs.
EditFields(v) ==
    {"title", "amount", "date", "category"}
        \cup (IF v = "multitype" THEN {"type"} ELSE {})
        \cup (IF v = "latest" THEN {"notes"} ELSE {})

EditValues(v, f) ==
    CASE f = "title"    -> TitleInputs
      [] f = "amount"   -> AmountInputs
      [] f = "date"     -> DateStrings
      [] f = "category" -> IF v = "latest" THEN CategoryOptions
                           ELSE {"", "Food", "Rent"}
      [] f = "type"     -> Types
      [] f = "notes"    -> NotesInputs

\* onChange of an input of the edit form: setEditForm({...editForm, [f]: x})
changeEditForm(f, x) ==
    /\ EditFormShown
    /\ edits < MaxEdits
    /\ editForm[f] # (IF f = "amount" THEN Str(x) ELSE x)
    /\ edits' = edits + 1
    /\ editForm' = [editForm EXCEPT ![f] = IF f = "amount" THEN Str(x) ELSE x]
    /\ reported' = NoReport
    /\ last' = Op("changeEditForm", editingId, TRUE)
    /\ UNCHANGED <<session, variant, now, expenses, stored, editingId>>

cancelEdit ==
    /\ EditFormShown
    /\ editingId' = NoId
    /\ editForm' = EmptyForm(variant)
    /\ reported' = NoReport
    /\ last' = Op("cancelEdit", editingId, TRUE)
    /\ UNCHANGED <<session, edits, variant, now, expenses, stored>>

\* { ...e, ...editForm }: the form's own fields overwrite the record's
Spread(e, form, v) ==
    [e EXCEPT !.title = form.title,
              !.amount = form.amount,
              !.date = form.date,
              !.category = form.category,
              !.type = IF v = "multitype" THEN form.type ELSE @,
              !.notes = IF v = "latest" THEN form.notes ELSE @]

\* the handler returned before setExpenses; the form stays as it is
SaveRejected(id, report) ==
    /\ reported' = report
    /\ last' = Op("saveEdit", id, FALSE)
    /\ UNCHANGED <<session, edits, variant, now, expenses, stored, editingId, editForm>>

\* setExpenses(next); cancelEdit(); then the storage effect
SaveAccepted(id, next, report) ==
    /\ expenses' = next
    /\ stored' = StorageEffect(next)
    /\ editingId' = NoId
    /\ editForm' = EmptyForm(variant)
    /\ reported' = report
    /\ last' = Op("saveEdit", id, TRUE)
    /\ UNCHANGED <<session, edits, variant, now>>

\* expenses.map((e) => e.id === id ? { ...e, ...editForm } : e)
saveEditBasic(id) ==
    /\ variant = "basic"
    /\ EditFormShown /\ id = editingId
    /\ SaveAccepted(id,
          [i \in 1..Len(expenses) |->
              IF expenses[i].id = id
              THEN Spread(expenses[i], editForm, variant)
              ELSE expenses[i]],
          NoReport)

\* mutation of MapEdited: the id test is dropped, every record is overwritten
MapEdited_EveryRecord(seq, id, form, v, t) ==
    [i \in 1..Len(seq) |->
        [seq[i] EXCEPT !.title = form.title,
                       !.amount = Number(form.amount),
                       !.date = form.date,
                       !.category = form.category]]

\* expenses.map(e => e.id === id ? { ...e, ...editForm, amount: amountNum } : e)
MapEdited(seq, id, form, v, t) ==
    [i \in 1..Len(seq) |->
        IF seq[i].id = id
        THEN [Spread(seq[i], form, v) EXCEPT
                 !.amount = Number(form.amount),
                 !.updatedAt = IF v = "latest" THEN t ELSE @]
        ELSE seq[i]]

saveEditValidated(id) ==
    /\ variant = "validated"
    /\ EditFormShown /\ id = editingId
    /\ IF AmountInvalid(editForm.amount)
       THEN SaveRejected(id, Alert("Please enter a valid positive amount"))
       ELSE IF DateInFuture(editForm.date, now)
       THEN SaveRejected(id, Alert("Cannot set expense date to future"))
       ELSE SaveAccepted(id, MapEdited(expenses, id, editForm, variant, now),
                         NoReport)

saveEditMultitype(id) ==
    /\ variant = "multitype"
    /\ EditFormShown /\ id = editingId
    /\ IF AmountInvalid(editForm.amount)
       THEN SaveRejected(id, Alert("Enter valid amount"))
       ELSE IF DateInFuture(editForm.date, now)
       THEN SaveRejected(id, Alert("Cannot set future date"))
       ELSE SaveAccepted(id, MapEdited(expenses, id, editForm, variant, now),
                         NoReport)

saveEditLatest(id) ==
    /\ variant = "latest"
    /\ EditFormShown /\ id = editingId
    /\ IF AmountInvalid(editForm.amount)
       THEN SaveRejected(id, showNotification("Please enter a valid positive amount", "error"))
       ELSE IF DateInFuture(editForm.date, now)
       THEN SaveRejected(id, showNotification("Cannot set expense date to future", "error"))
       ELSE SaveAccepted(id, MapEdited(expenses, id, editForm, variant, now),
                         showNotification("Expense updated successfully!", "success"))

\* mutation of clearAll: the key removed by the handler is not written again
clearAll_KeyRemoved(confirmed) ==
    /\ expenses' = IF confirmed THEN <<>> ELSE expenses
    /\ stored' = IF confirmed THEN [present |-> FALSE, text |-> <<>>]
                  ELSE stored
    /\ reported' = NoReport
    /\ last' = Op("clearAll", NoId, confirmed)
    /\ UNCHANGED <<session, edits, variant, now, editingId, editForm>>

\* mutation of clearAll: the answer to the confirmation is ignored
clearAll_Unconfirmed(confirmed) ==
    /\ expenses' = <<>>
    /\ stored' = StorageEffect(<<>>)
    /\ reported' = NoReport
    /\ last' = Op("clearAll", NoId, confirmed)
    /\ UNCHANGED <<session, edits, variant, now, editingId, editForm>>

\* if (window.confirm(...)) { setExpenses([]); ... }
\* basic and validated also call localStorage.removeItem("expenses") before
\* the storage effect of the new state writes the key again.
clearAll(confirmed) ==
    IF confirmed
    THEN /\ expenses' = <<>>
         /\ stored' = LET afterHandler ==
                            IF variant \in {"basic", "validated"}
                            THEN RemovedItem ELSE stored
                      IN  StorageEffect(<<>>)
         /\ reported' = IF variant = "latest"
                        THEN showNotification("All expenses cleared", "info")
                        ELSE NoReport
         /\ last' = Op("clearAll", NoId, TRUE)
         /\ UNCHANGED <<session, edits, variant, now, editingId, editForm>>
    ELSE /\ reported' = NoReport
         /\ last' = Op("clearAll", NoId, FALSE)
         /\ UNCHANGED <<session, edits, variant, now, expenses, stored, editingId, editForm>>

-----------------------------------------------------------------------------
(* EXPORT, IMPORT (latest variant) and page reload *)

\* exportData writing the records newest first
ExportDocument_Reversed(seq, budget) ==
    [chosen |-> TRUE, json |-> TRUE, hasExpenses |-> TRUE,
     expenses |-> [i \in 1..Len(seq) |->
                     JSONparse(JSONstringify(seq))[Len(seq) + 1 - i]],
     monthlyBudget |-> budget]

\* The file a download of exportData holds:
\* JSON.stringify({ expenses, monthlyBudget, exportedAt }, null, 2).
\* `expenses` is what JSON.parse gives back for the member; `hasExpenses`
\* says that data.expenses is truthy, which every array is.  monthlyBudget 0
\* stands for a falsy or missing member.
ExportDocument(seq, budget) ==
    [chosen |-> TRUE, json |-> TRUE, hasExpenses |-> TRUE,
     expenses |-> JSONparse(JSONstringify(seq)), monthlyBudget |-> budget]

\* exportData: builds the document, clicks a download link, then
\* showNotification("Data exported successfully!", "success")
exportData ==
    /\ variant = "latest"
    /\ reported' = showNotification("Data exported successfully!", "success")
    /\ last' = Op("exportData", NoId, TRUE)
    /\ UNCHANGED <<session, edits, variant, now, expenses, stored,
                   editingId, editForm>>

\* Files the user can pick: not JSON, JSON without an `expenses` member, and
\* a document exported by another session holding one record.
ImportFiles ==
    {[chosen |-> TRUE, json |-> FALSE, hasExpenses |-> FALSE,
      expenses |-> <<>>, monthlyBudget |-> 0],
     [chosen |-> TRUE, json |-> TRUE, hasExpenses |-> FALSE,
      expenses |-> <<>>, monthlyBudget |-> 0],
     ExportDocument(<<Record(1, "a", Num(7), "2024-02-15", "Food",
                             Undefined, "n", 1, NoTime)>>, DefaultBudget)}

\* right after an export: the file just downloaded
ExportedFiles ==
    IF last.op = "exportData"
    THEN {ExportDocument(expenses, monthlyBudget)} ELSE {}

\* onChange of the file input: const file = event.target.files[0];
\* if (!file) return; ... reader.readAsText(file).  One read is followed at
\* a time.
importData(file) ==
    /\ variant = "latest"
    /\ reader = NoFile
    /\ reader' = file
    /\ reported' = NoReport
    /\ last' = Op("importData", NoId, file.chosen)
    /\ UNCHANGED <<viewParams, timeZone, panel, edits, variant, now,
                   expenses, stored, editingId, editForm>>

\* setExpenses(data.expenses), which keeps earlier records too
Imported_Merged(doc, seq) == seq \o doc.expenses

\* setExpenses(data.expenses)
Imported(doc, seq) == doc.expenses

\* reader.onload: try { const data = JSON.parse(e.target.result);
\*   if (data.expenses) { setExpenses(data.expenses);
\*     if (data.monthlyBudget) setMonthlyBudget(data.monthlyBudget);
\*     showNotification("Data imported successfully!", "success"); }
\* } catch (error) { showNotification("Invalid file format", "error"); }
readerOnload ==
    /\ variant = "latest"
    /\ reader # NoFile
    /\ reader' = NoFile
    /\ IF ~reader.json
       THEN /\ reported' = showNotification("Invalid file format", "error")
            /\ last' = Op("readerOnload", NoId, FALSE)
            /\ UNCHANGED <<expenses, stored, monthlyBudget>>
       ELSE IF ~reader.hasExpenses
       THEN /\ reported' = NoReport
            /\ last' = Op("readerOnload", NoId, FALSE)
            /\ UNCHANGED <<expenses, stored, monthlyBudget>>
       ELSE /\ expenses' = Imported(reader, expenses)
            /\ stored' = StorageEffect(Imported(reader, expenses))
            /\ monthlyBudget' = IF reader.monthlyBudget # 0
                                THEN reader.monthlyBudget ELSE monthlyBudget
            /\ reported' = showNotification("Data imported successfully!",
                                            "success")
            /\ last' = Op("readerOnload", NoId, TRUE)
    /\ UNCHANGED <<viewParams, timeZone, timeRange, notification, timers,
                   edits, variant, now, editingId, editForm>>

\* Page refresh: every useState initialiser runs again, reads in flight are
\* dropped, and the storage effect of the first render writes the key.
Reload ==
    /\ expenses' = Load(variant, stored)
    /\ stored' = StorageEffect(Load(variant, stored))
    /\ editingId' = NoId
    /\ editForm' = EmptyForm(variant)
    /\ reported' = NoReport
    /\ selectedMonth' = ViewDefaults(variant).selectedMonth
    /\ search' = ViewDefaults(variant).search
    /\ sortBy' = ViewDefaults(variant).sortBy
    /\ sortDir' = ViewDefaults(variant).sortDir
    /\ filterType' = ViewDefaults(variant).filterType
    /\ reader' = NoFile
    /\ timeRange' = "monthly"
    /\ notification' = NoNotification
    /\ timers' = <<>>
    /\ last' = Op("reload", NoId, TRUE)
    /\ UNCHANGED <<timeZone, edits, variant, now, monthlyBudget>>

-----------------------------------------------------------------------------

Next ==
    \/ Tick
    \/ \E f \in AddForms :
          \/ addExpenseBasic(f.title, f.amount, f.date, f.category,
                             f.customCategory)
          \/ addExpenseValidated(f.title, f.amount, f.date, f.category,
                                 f.customCategory)
          \/ \E type \in Types :
               addExpenseMultitype(f.title, f.amount, f.date, f.category,
                                   f.customCategory, type)
          \/ addExpenseLatest(f.title, f.amount, f.date, f.category, "")
    \/ \E id \in 1..MaxNow, confirmed \in BOOLEAN : deleteExpense(id, confirmed)
    \/ \E i \in 1..MaxLen : startEdit(i)
    \/ \E f \in EditFields(variant) : \E x \in EditValues(variant, f) :
          changeEditForm(f, x)
    \/ cancelEdit
    \/ \E id \in 1..MaxNow :
          \/ saveEditBasic(id)
          \/ saveEditValidated(id)
          \/ saveEditMultitype(id)
          \/ saveEditLatest(id)
    \/ \E confirmed \in BOOLEAN : clearAll(confirmed)
    \/ exportData
    \/ \E file \in ImportFiles \cup {NoFile} : importData(file)
    \/ readerOnload
    \/ Reload

Spec == Init /\ [][Next]_vars

\* The latest variant with exports read back: the handlers that build and
\* change a collection, exportData, and the import of the file just
\* downloaded.
RoundTripInit == Mounted("latest", RemovedItem, 1, "UTC")

RoundTripNext ==
    \/ Tick
    \/ \E f \in AddForms :
          addExpenseLatest(f.title, f.amount, f.date, f.category, "")
    \/ \E id \in 1..MaxNow : deleteExpense(id, TRUE)
    \/ \E i \in 1..MaxLen : startEdit(i)
    \/ \E f \in EditFields(variant) : \E x \in EditValues(variant, f) :
          changeEditForm(f, x)
    \/ \E id \in 1..MaxNow : saveEditLatest(id)
    \/ exportData
    \/ \E file \in ExportedFiles : importData(file)
    \/ readerOnload

RoundTripSpec == RoundTripInit /\ [][RoundTripNext]_vars

-----------------------------------------------------------------------------
(* THE VIEW: strings and dates as the pipeline reads them *)

\* the characters of the strings of the model
Chars(s) ==
    CASE s = ""      -> <<>>
      [] s = " "     -> <<" ">>
      [] s = "E"     -> <<"E">>
      [] s = "a"     -> <<"a">>
      [] s = "n"     -> <<"n">>
      [] s = "o"     -> <<"o">>
      [] s = "7"     -> <<"7">>
      [] s = "Tea"   -> <<"T", "e", "a">>
      [] s = "eat"   -> <<"e", "a", "t">>
      [] s = "Bus"   -> <<"B", "u", "s">>
      [] s = "fee"   -> <<"f", "e", "e">>
      [] s = "Food"  -> <<"F", "o", "o", "d">>
      [] s = "Rent"  -> <<"R", "e", "n", "t">>
      [] s = "Bills" -> <<"B", "i", "l", "l", "s">>
      [] s = "Other" -> <<"O", "t", "h", "e", "r">>

\* s.toLowerCase(), on characters
toLowerCase(cs) ==
    [i \in 1..Len(cs) |->
        CASE cs[i] = "B" -> "b" [] cs[i] = "E" -> "e" [] cs[i] = "F" -> "f"
          [] cs[i] = "O" -> "o" [] cs[i] = "R" -> "r" [] cs[i] = "T" -> "t"
          [] OTHER -> cs[i]]

\* hay.includes(needle)
includes(hay, needle) ==
    \E k \in 0..(Len(hay) - Len(needle)) :
        SubSeq(hay, k + 1, k + Len(needle)) = needle

\* search.trim() is the empty string
TrimsToEmpty(s) == \A i \in 1..Len(Chars(s)) : Chars(s)[i] = " "

\* the calendar of 2023 and 2024, in days since Sunday 2023-01-01
DaysInMonth(y, m) ==
    CASE m \in {4, 6, 9, 11} -> 30
      [] m = 2 -> (IF y % 4 = 0 THEN 29 ELSE 28)
      [] OTHER -> 31

RECURSIVE DaysBeforeMonth(_, _)
DaysBeforeMonth(y, m) ==
    IF m = 1 THEN 0 ELSE DaysBeforeMonth(y, m - 1) + DaysInMonth(y, m - 1)

DayNumber(f) ==
    (IF f.y = 2024 THEN 365 ELSE 0) + DaysBeforeMonth(f.y, f.m) + f.d - 1

RECURSIVE MonthOfDay(_, _, _)
MonthOfDay(y, m, n) ==
    IF n < DaysInMonth(y, m) THEN [y |-> y, m |-> m, d |-> n + 1]
    ELSE MonthOfDay(y, m + 1, n - DaysInMonth(y, m))

FieldsOfDay(n) ==
    IF n < 365 THEN MonthOfDay(2023, 1, n) ELSE MonthOfDay(2024, 1, n - 365)

\* String(n).padStart(2, "0")
Pad2(n) == IF n < 10 THEN "0" \o ToString(n) ELSE ToString(n)

\* the YYYY-MM-DD string of a day, as an <input type="date"> and
\* toISOString().slice(0, 10) write it
ISODate(f) == ToString(f.y) \o "-" \o Pad2(f.m) \o "-" \o Pad2(f.d)

\* the Wednesdays of MaxWeeks consecutive weeks, from 2024-01-03 on
FirstWeekDay == DayNumber([y |-> 2024, m |-> 1, d |-> 3])
WeekDates ==
    [k \in 1..MaxWeeks |-> ISODate(FieldsOfDay(FirstWeekDay + 7 * (k - 1)))]

\* year, month and day a date string denotes; the empty string denotes none
DateFields(d) ==
    CASE d = "2023-02-10" -> [y |-> 2023, m |-> 2, d |-> 10]
      [] d = "2024-01-05" -> [y |-> 2024, m |-> 1, d |-> 5]
      [] d = "2024-02-01" -> [y |-> 2024, m |-> 2, d |-> 1]
      [] d = "2024-02-10" -> [y |-> 2024, m |-> 2, d |-> 10]
      [] d = "2024-02-15" -> [y |-> 2024, m |-> 2, d |-> 15]
      [] d = "2024-03-01" -> [y |-> 2024, m |-> 3, d |-> 1]
      [] d = ""           -> [y |-> 0, m |-> 0, d |-> 0]
      [] OTHER ->
           IF \E k \in 1..MaxWeeks : WeekDates[k] = d
           THEN FieldsOfDay(FirstWeekDay + 7 *
                    ((CHOOSE k \in 1..MaxWeeks : WeekDates[k] = d) - 1))
           ELSE [y |-> 0, m |-> 0, d |-> 0]

\* n.toString().padStart(2, '0') for a month number
TwoDigits(m) ==
    CASE m = 1 -> "01" [] m = 2 -> "02" [] m = 3 -> "03" [] m = 4 -> "04"
      [] m = 5 -> "05" [] m = 12 -> "12"
      [] OTHER -> "NaN"

\* e.date.split("-")[1]
SplitMonth(d) == IF d = "" THEN Undefined ELSE TwoDigits(DateFields(d).m)

\* e.date.slice(0, 7)
MonthKey(d) ==
    CASE d = "2023-02-10" -> "2023-02"
      [] d = "2024-01-05" -> "2024-01"
      [] d = "2024-02-01" -> "2024-02"
      [] d = "2024-02-10" -> "2024-02"
      [] d = "2024-02-15" -> "2024-02"
      [] d = "2024-03-01" -> "2024-03"
      [] d = ""           -> ""
      [] OTHER ->
           IF DateFields(d).y = 0 THEN ""
           ELSE ToString(DateFields(d).y) \o "-" \o Pad2(DateFields(d).m)

\* a.month.localeCompare(b.month) on month keys: their order as numbers
MonthKeyRank(k) ==
    CASE k = ""        -> 0
      [] k = "2023-02" -> 1
      [] k = "2024-01" -> 2
      [] k = "2024-02" -> 3
      [] k = "2024-03" -> 4
      [] k = "2024-04" -> 5
      [] k = "2024-05" -> 6

\* new Date(d) is an Invalid Date
InvalidDate(d) == DateFields(d).y = 0

\* new Date(d).getTime(), in days: a date-only string is midnight UTC
TimeValue(d) == DateFields(d).y * 372 + DateFields(d).m * 31 + DateFields(d).d

\* new Date(d).getMonth() + 1: the month of that instant in local time;
\* west of Greenwich midnight UTC still belongs to the day before
LocalMonth(d, tz) ==
    IF tz = "west" /\ DateFields(d).d = 1
    THEN (IF DateFields(d).m = 1 THEN 12 ELSE DateFields(d).m - 1)
    ELSE DateFields(d).m

\* a.title.localeCompare(b.title): position of the titles in that order
TitleRank(t) ==
    CASE t = "" -> 0 [] t = "a" -> 1 [] t = "Bus" -> 2 [] t = "eat" -> 3
      [] t = "Tea" -> 4

-----------------------------------------------------------------------------
(* THE VIEW: filter, search, sort, aggregates *)

\* Number(e.amount)
AmountValue(e) == Number(e.amount).n

\* view.reduce((sum, e) => sum + Number(e.amount), 0)
RECURSIVE SumAmounts(_)
SumAmounts(seq) ==
    IF seq = <<>> THEN 0
    ELSE AmountValue(Head(seq)) + SumAmounts(Tail(seq))

\* selectedMonth ? expenses.filter(e => e.date &&
\*                     e.date.split("-")[1] === selectedMonth) : expenses
\* latest: new Date(e.date).getMonth() + 1, padded, === selectedMonth
MonthFilter(v, seq, month, tz) ==
    IF month = "" THEN seq
    ELSE IF v = "latest"
    THEN SelectSeq(seq, LAMBDA e : TwoDigits(LocalMonth(e.date, tz)) = month)
    ELSE SelectSeq(seq, LAMBDA e : e.date # "" /\ SplitMonth(e.date) = month)

\* e.type === "expense" || !e.type
IsExpense(e) == e.type \in {"expense", Undefined, ""}

\* if (filterType !== "all") { if (filterType === "expense") ...
\*                             else if (filterType === "income") ... }
TypeFilter(v, seq, ft) ==
    IF v # "multitype" \/ ft = "all" THEN seq
    ELSE IF ft = "expense" THEN SelectSeq(seq, IsExpense)
    ELSE IF ft = "income" THEN SelectSeq(seq, LAMBDA e : e.type = "income")
    ELSE seq

\* mutation of SearchFilter: the query is compared as typed
SearchFilter_CaseSensitive(v, seq, q) ==
    IF TrimsToEmpty(q) THEN seq
    ELSE SelectSeq(seq, LAMBDA e :
            includes(toLowerCase(Chars(e.title)), Chars(q)))

\* if (search.trim()) { const q = search.toLowerCase();
\*   view = view.filter(e => e.title.toLowerCase().includes(q)) }
\* latest: || e.category.toLowerCase().includes(q)
\*         || (e.notes && e.notes.toLowerCase().includes(q))
SearchFilter(v, seq, q) ==
    IF TrimsToEmpty(q) THEN seq
    ELSE SelectSeq(seq, LAMBDA e :
            \/ includes(toLowerCase(Chars(e.title)), toLowerCase(Chars(q)))
            \/ /\ v = "latest"
               /\ \/ includes(toLowerCase(Chars(e.category)),
                              toLowerCase(Chars(q)))
                  \/ /\ e.notes \notin {Undefined, ""}
                     /\ includes(toLowerCase(Chars(e.notes)),
                                 toLowerCase(Chars(q))))

\* mutation of SortKey: every sort field compares the dates
SortKey_AlwaysDate(v, by, e) ==
    IF v = "latest" THEN TimeValue(e.date) ELSE LexRank(e.date)

\* x and y of the comparator: Number(a.amount), a.date as a string, and in
\* the latest variant new Date(a.date) or the rank of a.title
SortKey(v, by, e) ==
    IF by = "amount" THEN AmountValue(e)
    ELSE IF v = "latest" /\ by = "title" THEN TitleRank(e.title)
    ELSE IF v = "latest" THEN TimeValue(e.date)
    ELSE LexRank(e.date)

\* the value the comparator of the variant returns for (a, b)
\* basic:  sortDir === "asc" ? (x > y ? 1 : -1) : x < y ? 1 : -1
\* validated, multi-type:  -1 / 1 / 0 by x < y, x > y
\* latest:  (x - y) * multiplier, NaN when a date is invalid (taken as 0)
Compare(v, by, dir, a, b) ==
    LET x == SortKey(v, by, a)
        y == SortKey(v, by, b)
    IN  IF v = "basic"
        THEN (IF dir = "asc" THEN (IF x > y THEN 1 ELSE -1)
              ELSE (IF x < y THEN 1 ELSE -1))
        ELSE IF v = "latest" /\ by \notin {"amount", "title"}
                /\ (InvalidDate(a.date) \/ InvalidDate(b.date))
        THEN 0
        ELSE IF x < y THEN (IF dir = "asc" THEN -1 ELSE 1)
        ELSE IF x > y THEN (IF dir = "asc" THEN 1 ELSE -1)
        ELSE 0

\* Array.prototype.sort with a consistent comparator: a stable sort
RECURSIVE InsertSorted(_, _, _, _, _)
InsertSorted(e, sorted, v, by, dir) ==
    IF sorted = <<>> THEN <<e>>
    ELSE IF Compare(v, by, dir, Head(sorted), e) > 0 THEN <<e>> \o sorted
    ELSE <<Head(sorted)>> \o InsertSorted(e, Tail(sorted), v, by, dir)

RECURSIVE StableSort(_, _, _, _)
StableSort(seq, v, by, dir) ==
    IF seq = <<>> THEN <<>>
    ELSE InsertSorted(seq[Len(seq)],
                      StableSort(SubSeq(seq, 1, Len(seq) - 1), v, by, dir),
                      v, by, dir)

\* the orders of 1..n
Orders(n) == {p \in [1..n -> 1..n] : \A i, j \in 1..n : p[i] = p[j] => i = j}

\* [...view].sort(comparator): what the sort can return.  The comparator of
\* the basic variant never returns 0 and answers -1 both ways for equal keys,
\* so the order of equal keys is left to the engine.
SortOutcomes(v, seq, by, dir) ==
    IF v # "latest" /\ by = "" THEN {seq}
    ELSE IF v = "basic"
    THEN {[i \in 1..Len(seq) |-> seq[p[i]]] : p \in
            {q \in Orders(Len(seq)) :
                \A i, j \in 1..Len(seq) :
                    i < j => Compare(v, by, dir, seq[q[i]], seq[q[j]]) # 1}}
    ELSE {StableSort(seq, v, by, dir)}

\* the keys in the order they were first assigned
RECURSIVE InsertionOrder(_)
InsertionOrder(ks) ==
    IF ks = <<>> THEN <<>>
    ELSE LET rest == InsertionOrder(SubSeq(ks, 1, Len(ks) - 1))
         IN  IF \E i \in 1..Len(rest) : rest[i] = ks[Len(ks)]
             THEN rest ELSE Append(rest, ks[Len(ks)])

\* a key that is a canonical array index ("7" is the one of the model)
IntegerKey(k) == k = "7"

\* Object.entries / Object.values: integer keys first, in ascending order,
\* then the other keys in the order they were first assigned
ObjectKeys(ks) ==
    SelectSeq(InsertionOrder(ks), IntegerKey)
        \o SelectSeq(InsertionOrder(ks), LAMBDA k : ~IntegerKey(k))

\* entries.sort((a, b) => a.month.localeCompare(b.month))
RECURSIVE SortedMonths(_)
SortedMonths(ks) ==
    IF ks = <<>> THEN <<>>
    ELSE LET rest == SortedMonths(SubSeq(ks, 1, Len(ks) - 1))
             k == ks[Len(ks)]
         IN  SelectSeq(rest, LAMBDA m : MonthKeyRank(m) <= MonthKeyRank(k))
                 \o <<k>>
                 \o SelectSeq(rest, LAMBDA m : MonthKeyRank(m) > MonthKeyRank(k))

\* Object.entries(view.reduce((acc, e) => { acc[e.category] =
\*    (acc[e.category] || 0) + Number(e.amount); return acc }, {}))
\* multi-type: over spendingData = [...expenseView, ...investmentView]
PieData(v, view) ==
    LET source == IF v = "multitype"
                  THEN SelectSeq(view, IsExpense)
                          \o SelectSeq(view, LAMBDA e : e.type = "investment")
                  ELSE view
        keys == ObjectKeys([i \in 1..Len(source) |-> source[i].category])
    IN  [i \in 1..Len(keys) |->
            [name |-> keys[i],
             value |-> SumAmounts(SelectSeq(source,
                                  LAMBDA e : e.category = keys[i]))]]

\* view.forEach(e => { const m = e.date?.slice(0, 7); if (!m) return;
\*                     monthMap[m] = (monthMap[m] || 0) + Number(e.amount) })
\* basic, validated: Object.entries(monthMap)
\* multi-type: per type, Object.values(monthMap).sort(by month)
\* latest (monthly range): no guard on m; Object.entries(...).sort(by month)
BarData(v, view) ==
    LET dated == IF v = "latest" THEN view
                 ELSE SelectSeq(view, LAMBDA e : MonthKey(e.date) # "")
        assigned == ObjectKeys([i \in 1..Len(dated) |-> MonthKey(dated[i].date)])
        keys == IF v \in {"multitype", "latest"} THEN SortedMonths(assigned)
                ELSE assigned
        In(k) == SelectSeq(dated, LAMBDA e : MonthKey(e.date) = k)
    IN  [i \in 1..Len(keys) |->
            IF v = "multitype"
            THEN [month |-> keys[i],
                  income |-> SumAmounts(SelectSeq(In(keys[i]),
                                 LAMBDA e : e.type = "income")),
                  investment |-> SumAmounts(SelectSeq(In(keys[i]),
                                 LAMBDA e : e.type = "investment")),
                  expense |-> SumAmounts(SelectSeq(In(keys[i]),
                                 LAMBDA e : e.type \notin {"income", "investment"})),
                  total |-> SumAmounts(In(keys[i]))]
            ELSE [month |-> keys[i], total |-> SumAmounts(In(keys[i]))]]

\* the elements of a set of numbers, smallest first
RECURSIVE Ascending(_)
Ascending(S) ==
    IF S = {} THEN <<>>
    ELSE LET m == CHOOSE x \in S : \A y \in S : x <= y
         IN  <<m>> \o Ascending(S \ {m})

\* const date = new Date(e.date); const weekStart = new Date(date);
\* weekStart.setDate(date.getDate() - date.getDay());
\* weekStart.toISOString().slice(0, 10)
\* as a day number: getDate and getDay read local time, where midnight UTC
\* is still the evening before west of Greenwich; toISOString writes UTC
WeekStartDay(d, tz) ==
    LET n == DayNumber(DateFields(d))
        local == IF tz = "west" THEN n - 1 ELSE n
        sunday == local - (local % 7)
    IN  IF tz = "west" THEN sunday + 1 ELSE sunday

\* .slice(0, 12)
WeekSlice == 12

\* Object.entries(weeklyData).map(([week, total]) => ({ week, total }))
\*    .sort((a, b) => a.week.localeCompare(b.week)).slice(0, 12)
WeeklyBarData(view, tz) ==
    LET keys == Ascending({WeekStartDay(view[i].date, tz) : i \in 1..Len(view)})
        kept == SubSeq(keys, 1, IF Len(keys) < WeekSlice THEN Len(keys)
                                ELSE WeekSlice)
    IN  [i \in 1..Len(kept) |->
            [week |-> ISODate(FieldsOfDay(kept[i])),
             total |-> SumAmounts(SelectSeq(view,
                          LAMBDA e : WeekStartDay(e.date, tz) = kept[i]))]]

\* mutation of NetBalance: investments are added
NetBalance_InvestmentsAdded(view) ==
    SumAmounts(SelectSeq(view, LAMBDA e : e.type = "income"))
        - SumAmounts(SelectSeq(view, IsExpense))
        + SumAmounts(SelectSeq(view, LAMBDA e : e.type = "investment"))

\* const netBalance = totalIncome - totalExpenses - totalInvestment
NetBalance(view) ==
    SumAmounts(SelectSeq(view, LAMBDA e : e.type = "income"))
        - SumAmounts(SelectSeq(view, IsExpense))
        - SumAmounts(SelectSeq(view, LAMBDA e : e.type = "investment"))

\* const expenseView = view.filter(e => e.type === "expense" || !e.type);
\* const incomeView = view.filter(e => e.type === "income");
\* const investmentView = view.filter(e => e.type === "investment");
expenseView(view) == SelectSeq(view, IsExpense)
incomeView(view) == SelectSeq(view, LAMBDA e : e.type = "income")
investmentView(view) == SelectSeq(view, LAMBDA e : e.type = "investment")

\* the totals of the three cards: xView.reduce((sum, e) => sum +
\* Number(e.amount), 0)
totalExpenses(view) == SumAmounts(expenseView(view))
totalIncome(view) == SumAmounts(incomeView(view))
totalInvestment(view) == SumAmounts(investmentView(view))

\* latest: weekStart.toISOString() throws a RangeError on an Invalid Date
Throws(v, view) ==
    v = "latest" /\ \E i \in 1..Len(view) : InvalidDate(view[i].date)

\* the render could not compute the view
Thrown ==
    [ok |-> FALSE, view |-> <<>>, totalAmount |-> 0, pieData |-> <<>>,
     barData |-> <<>>, netBalance |-> 0]

\* mutation of TotalAmount: the whole collection is summed
TotalAmount_WholeCollection(view) == SumAmounts(expenses)

\* const totalAmount = view.reduce((sum, e) => sum + Number(e.amount), 0)
TotalAmount(view) == SumAmounts(view)

\* what one render shows for the sorted view
Rendered(v, view) ==
    IF Throws(v, view) THEN Thrown
    ELSE [ok |-> TRUE, view |-> view,
          totalAmount |-> IF v = "multitype" THEN Undefined
                          ELSE TotalAmount(view),
          pieData |-> PieData(v, view),
          barData |-> IF v = "latest" /\ timeRange = "weekly"
                      THEN WeeklyBarData(view, timeZone)
                      ELSE BarData(v, view),
          netBalance |-> IF v = "multitype" THEN NetBalance(view)
                         ELSE Undefined]

\* the records that pass the month filter, the type filter and the search
Filtered(v, seq, month, ft, q, tz) ==
    SearchFilter(v, TypeFilter(v, MonthFilter(v, seq, month, tz), ft), q)

\* what a render of the current state can show
ViewOutcomes ==
    {Rendered(variant, sorted) :
        sorted \in SortOutcomes(variant,
                        Filtered(variant, expenses, selectedMonth, filterType,
                                 search, timeZone),
                        sortBy, sortDir)}

-----------------------------------------------------------------------------
(* Collections found in storage at start-up, and the controls of the view *)

\* the amount as the variant stores it: the typed string, or its number
StoredAmount(v, n) == IF v = "basic" THEN toString(Num(n)) ELSE Num(n)

\* Records earlier sessions can have saved: added on their date, the fifth
\* with its date cleared in the edit form, the fourth (multi-type) saved
\* before records had a type.
SavedRecords(v) ==
    LET R(title, n, date, category, type, notes) ==
            [id |-> NoId, title |-> title, amount |-> StoredAmount(v, n),
             date |-> date, category |-> category,
             type |-> IF v = "multitype" THEN type ELSE Undefined,
             notes |-> IF v = "latest" THEN notes ELSE Undefined,
             createdAt |-> NoTime, updatedAt |-> NoTime]
    IN  {R("Tea", 5, "2024-01-05", "Food", "expense", ""),
         R("eat", 7, "2024-02-10", "Food", "income", ""),
         R("Bus", 5, "2024-02-01", "Bills", "investment", "fee"),
         R("Bus", 7, "2024-01-05", IF v = "latest" THEN "Other" ELSE "7",
           Undefined, ""),
         R("eat", 5, "", "Food", "expense", ""),
         R("Tea", 7, "2023-02-10", "Bills", "income", "")}

\* The saved collections of at most MaxView records; ids are the creation
\* times, all before the session's clock starts (latest: newest first).
SavedItems(v) ==
    {[present |-> TRUE,
      text |-> [i \in 1..Len(c) |->
                  LET t == IF v = "latest" THEN 0 - i ELSE i - Len(c) - 1
                  IN  [c[i] EXCEPT !.id = t,
                                   !.createdAt = IF v = "latest" THEN t
                                                 ELSE NoTime]]] :
        c \in UNION {[1..n -> SavedRecords(v)] : n \in 0..MaxView}}

MonthOptions == {"", "01", "02"}
SearchInputs == {"", " ", "E", "o"}
SortByOptions(v) ==
    IF v = "latest" THEN {"date", "amount", "title"} ELSE {"", "date", "amount"}
SortDirOptions == {"asc", "desc"}
FilterTypeOptions == {"all", "expense", "income"}

ViewInit ==
    \E v \in Variants : \E item \in SavedItems(v) :
        \E tz \in (IF v = "latest" THEN TimeZones ELSE {"UTC"}) :
            Mounted(v, item, 1, tz)

setSelectedMonth(m) ==
    /\ selectedMonth' = m
    /\ UNCHANGED <<variant, now, expenses, stored, editingId, editForm,
                   reported, last, edits, search, sortBy, sortDir, filterType,
                   timeZone, reader, panel>>

setSearch(q) ==
    /\ search' = q
    /\ UNCHANGED <<variant, now, expenses, stored, editingId, editForm,
                   reported, last, edits, selectedMonth, sortBy, sortDir,
                   filterType, timeZone, reader, panel>>

setSortBy(b) ==
    /\ b \in SortByOptions(variant)
    /\ sortBy' = b
    /\ UNCHANGED <<variant, now, expenses, stored, editingId, editForm,
                   reported, last, edits, selectedMonth, search, sortDir,
                   filterType, timeZone, reader, panel>>

setSortDir(d) ==
    /\ sortDir' = d
    /\ UNCHANGED <<variant, now, expenses, stored, editingId, editForm,
                   reported, last, edits, selectedMonth, search, sortBy,
                   filterType, timeZone, reader, panel>>

setFilterType(t) ==
    /\ variant = "multitype"
    /\ filterType' = t
    /\ UNCHANGED <<variant, now, expenses, stored, editingId, editForm,
                   reported, last, edits, selectedMonth, search, sortBy,
                   sortDir, timeZone, reader, panel>>

ViewNext ==
    \/ \E m \in MonthOptions : setSelectedMonth(m)
    \/ \E q \in SearchInputs : setSearch(q)
    \/ \E b \in {"", "date", "amount", "title"} : setSortBy(b)
    \/ \E d \in SortDirOptions : setSortDir(d)
    \/ \E t \in FilterTypeOptions : setFilterType(t)

ViewSpec == ViewInit /\ [][ViewNext]_vars

\* The weekly chart: the latest variant over saved collections with a record
\* in any of MaxWeeks consecutive weeks, newest first, and a second record
\* in the first week.
WeekItems ==
    {[present |-> TRUE,
      text |-> LET weeks == Ascending(W)
                   n == Len(weeks)
                   R(i, k, amount) ==
                       [id |-> 0 - i, title |-> "Tea", amount |-> Num(amount),
                        date |-> WeekDates[k], category |-> "Food",
                        type |-> Undefined, notes |-> "",
                        createdAt |-> 0 - i, updatedAt |-> NoTime]
               IN  [i \in 1..n |-> R(i, weeks[n + 1 - i], 5)]
                     \o (IF 1 \in W THEN <<R(n + 1, 1, 7)>> ELSE <<>>)] :
        W \in SUBSET (1..MaxWeeks)}

WeekInit ==
    \E item \in WeekItems : \E tz \in TimeZones :
        Mounted("latest", item, 1, tz)

\* onChange={(e) => setTimeRange(e.target.value)}
setTimeRange(t) ==
    /\ variant = "latest"
    /\ timeRange' = t
    /\ UNCHANGED <<variant, now, expenses, stored, editingId, editForm,
                   reported, last, edits, viewParams, timeZone, reader,
                   monthlyBudget, notification, timers>>

WeekNext ==
    \/ \E t \in {"weekly", "monthly"} : setTimeRange(t)
    \/ \E d \in SortDirOptions : setSortDir(d)

WeekSpec == WeekInit /\ [][WeekNext]_vars

-----------------------------------------------------------------------------
(* Notifications on screen (latest variant); one clock tick is a second. *)
(* Spec keeps the call a handler makes in `reported`; here the call and   *)
(* its timer are followed, whoever the caller is.                         *)

\* setTimeout(..., 3000)
HideDelay == 3

\* messages handlers and the budget effect raise
NotifyMessages ==
    {<<"Expense deleted", "info">>, <<"Invalid file format", "error">>,
     <<"Data exported successfully!", "success">>}

\* showNotification(message, type), called by a handler or by the budget
\* effect: setNotification({ show: true, message, type });
\* setTimeout(() => { ... }, 3000)
callShowNotification(m, t) ==
    /\ variant = "latest"
    /\ Len(timers) < MaxTimers
    /\ notification' = [show |-> TRUE, message |-> m, type |-> t]
    /\ timers' = Append(timers, [due |-> now + HideDelay])
    /\ reported' = showNotification(m, t)
    /\ last' = Op("showNotification", NoId, TRUE)
    /\ UNCHANGED <<viewParams, timeZone, reader, monthlyBudget, timeRange,
                   edits, variant, now, expenses, stored, editingId, editForm>>

\* the callback of the oldest pending timer, once it is due:
\* setNotification({ show: false, message: "", type: "" }).  Timers of one
\* delay run in the order they were started.
hideTimer ==
    /\ timers # <<>>
    /\ Head(timers).due <= now
    /\ notification' = NoNotification
    /\ timers' = Tail(timers)
    /\ last' = Op("hideTimer", NoId, TRUE)
    /\ UNCHANGED <<viewParams, timeZone, reader, monthlyBudget, timeRange,
                   edits, variant, now, expenses, stored, editingId, editForm,
                   reported>>

\* a second passes; a timer that is due runs first
Elapse ==
    /\ now < MaxClock
    /\ IF timers = <<>> THEN TRUE ELSE Head(timers).due > now
    /\ now' = now + 1
    /\ UNCHANGED <<session, edits, variant, expenses, stored, editingId,
                   editForm, reported, last>>

NotifyInit == Mounted("latest", RemovedItem, 1, "UTC")

NotifyNext ==
    \/ \E n \in NotifyMessages : callShowNotification(n[1], n[2])
    \/ hideTimer
    \/ Elapse

NotifySpec == NotifyInit /\ [][NotifyNext]_vars

-----------------------------------------------------------------------------
(* The monthly budget (latest variant).  In Spec the budget stays at      *)
(* DefaultBudget, which no total of the model comes near, so the budget   *)
(* effect raises nothing after its handlers.                              *)

\* new Date().getMonth() + 1 of today, the same in both time zones
CurrentMonthNumber(t) == DateFields(Today(t)).m

\* expenses.filter(e => new Date(e.date).getMonth() + 1 === currentMonth)
\*         .reduce((sum, e) => sum + Number(e.amount), 0)
\* getMonth() of an Invalid Date is NaN, which equals no month
AlertTotal(seq, t, tz) ==
    SumAmounts(SelectSeq(seq, LAMBDA e :
        /\ ~InvalidDate(e.date)
        /\ LocalMonth(e.date, tz) = CurrentMonthNumber(t)))

\* const budgetPercentage = (totalMonthSpent / monthlyBudget) * 100;
\* if (budgetPercentage >= 90 && budgetPercentage < 100) warning
\* else if (budgetPercentage >= 100) error
\* The quotient is compared without dividing; a budget of 0 gives Infinity
\* for a positive total and NaN, which passes no comparison, for 0.  The
\* rounded percentage inside the message is left out.
BudgetAlert(seq, budget, t, tz) ==
    LET total == AlertTotal(seq, t, tz)
    IN  IF budget = 0
        THEN (IF total > 0
              THEN showNotification("budget exceeded", "error")
              ELSE NoReport)
        ELSE IF 100 * total >= 90 * budget /\ 100 * total < 100 * budget
        THEN showNotification("budget nearly used", "warning")
        ELSE IF 100 * total >= 100 * budget
        THEN showNotification("budget exceeded", "error")
        ELSE NoReport

\* const currentMonth = new Date().toISOString().slice(0, 7);
\* expenses.filter(e => e.date.startsWith(currentMonth)) ...
\* budgetStatus = { spent, remaining, percentage, isOverBudget }
\* percentage is kept as the fraction 100 * spent / monthlyBudget
BudgetStatus(seq, budget, t) ==
    LET spent == SumAmounts(SelectSeq(seq, LAMBDA e :
                     MonthKey(e.date) = MonthKey(Today(t))))
    IN  [spent |-> spent, remaining |-> budget - spent,
         percentage |-> [num |-> 100 * spent, den |-> budget],
         isOverBudget |-> spent > budget]

\* values typed into the budget field: Number(e.target.value)
BudgetInputs == {DefaultBudget, 13, 7, 0}

\* onChange={(e) => setMonthlyBudget(Number(e.target.value))}, followed by
\* the budget effect of the new state, which may call showNotification
setMonthlyBudget(b) ==
    /\ variant = "latest"
    /\ b # monthlyBudget
    /\ Len(timers) < MaxTimers
    /\ monthlyBudget' = b
    /\ reported' = BudgetAlert(expenses, b, now, timeZone)
    /\ IF BudgetAlert(expenses, b, now, timeZone) = NoReport
       THEN UNCHANGED <<notification, timers>>
       ELSE /\ notification' =
                  [show |-> TRUE,
                   message |-> BudgetAlert(expenses, b, now, timeZone).message,
                   type |-> BudgetAlert(expenses, b, now, timeZone).type]
            /\ timers' = Append(timers, [due |-> now + HideDelay])
    /\ last' = Op("setMonthlyBudget", NoId, TRUE)
    /\ UNCHANGED <<viewParams, timeZone, reader, timeRange, edits, variant,
                   now, expenses, stored, editingId, editForm>>

\* mounted over a saved collection; with the default budget the effect of
\* the first render raises nothing
BudgetInit ==
    \E item \in SavedItems("latest") : \E tz \in TimeZones :
        Mounted("latest", item, 1, tz)

BudgetNext ==
    \/ \E b \in BudgetInputs : setMonthlyBudget(b)
    \/ hideTimer
    \/ Elapse

BudgetSpec == BudgetInit /\ [][BudgetNext]_vars

-----------------------------------------------------------------------------
(* Vocabulary of the properties *)

\* the calendar: which strings are dates, and their order in time
WellFormedDate(d) == d \in {"2024-02-15", "2024-03-01"}
DayOfYear(d) == CASE d = "2024-02-15" -> 46 [] d = "2024-03-01" -> 61
NotAfterToday(d, t) == WellFormedDate(d) /\ DayOfYear(d) <= DayOfYear(Today(t))
AfterToday(d, t) == WellFormedDate(d) /\ DayOfYear(d) > DayOfYear(Today(t))

\* the value is a number greater than zero once coerced
CoercesToPositive(v) == Number(v).k = "number" /\ Number(v).n > 0

\* the record invariants of the data model
RecordInvariant(e, t) ==
    /\ e.title # ""
    /\ e.amount.k = "number" /\ e.amount.n > 0
    /\ NotAfterToday(e.date, t)
    /\ e.category # ""

\* the report is a validation error shown to the user
IsErrorReport(r) ==
    \/ r.via = "alert"
    \/ r.via = "notification" /\ r.type = "error"

\* seq without its element at position i
RemoveAt(seq, i) ==
    [j \in 1..(Len(seq) - 1) |-> IF j < i THEN seq[j] ELSE seq[j + 1]]

\* the Add button pressed on form f (type: the radio of the multi-type form)
AddStep(f, type) ==
    \/ addExpenseBasic(f.title, f.amount, f.date, f.category, f.customCategory)
    \/ addExpenseValidated(f.title, f.amount, f.date, f.category,
                           f.customCategory)
    \/ addExpenseMultitype(f.title, f.amount, f.date, f.category,
                           f.customCategory, type)
    \/ addExpenseLatest(f.title, f.amount, f.date, f.category, "")

\* the Save button of the edit form
SaveStep(id) ==
    \/ saveEditBasic(id)
    \/ saveEditValidated(id)
    \/ saveEditMultitype(id)
    \/ saveEditLatest(id)

\* a valid candidate: title, positive amount, date not after today, category
ValidCandidate(f, t) ==
    /\ f.title # ""
    /\ CoercesToPositive(Str(f.amount))
    /\ NotAfterToday(f.date, t)
    /\ FinalCategory(f.category, f.customCategory) # ""

-----------------------------------------------------------------------------
(* C1: in every variant, add of a valid candidate grows the collection by  *)
(* exactly one record, and the record it stored has a non-empty title, a   *)
(* numeric amount > 0, a date not in the future and a non-empty category.  *)
C1_AddValidStoresValidRecord ==
    [][\A f \in AddForms, type \in Types :
          (ValidCandidate(f, now) /\ AddStep(f, type)) =>
              \E i \in 1..Len(expenses') :
                  /\ Len(expenses') = Len(expenses) + 1
                  /\ RemoveAt(expenses', i) = expenses
                  /\ RecordInvariant(expenses'[i], now)]_vars

(* C3: in every variant, add with an amount that is not a number > 0, or   *)
(* with a date later than today, leaves the collection and its persisted   *)
(* copy unchanged and reports a validation error.                          *)
C3_AddBadAmountOrDateRejected ==
    [][\A f \in AddForms, type \in Types :
          ((~CoercesToPositive(Str(f.amount)) \/ AfterToday(f.date, now))
              /\ AddStep(f, type)) =>
              /\ expenses' = expenses
              /\ stored' = stored
              /\ IsErrorReport(reported')]_vars

(* C4: in every variant, add with an empty title or an empty category      *)
(* ("Other" without custom text included) leaves the collection unchanged  *)
(* and reports a validation error.                                         *)
C4_AddEmptyTitleOrCategoryReported ==
    [][\A f \in AddForms, type \in Types :
          ((f.title = "" \/ FinalCategory(f.category, f.customCategory) = "")
              /\ AddStep(f, type)) =>
              /\ expenses' = expenses
              /\ IsErrorReport(reported')]_vars

(* C5: in every variant, saveEdit with an edited amount that is not a      *)
(* number > 0, or an edited date later than today, reports a validation    *)
(* error, changes no record and leaves the edit form open on the record.   *)
C5_SaveBadAmountOrDateRejected ==
    [][\A id \in 1..MaxNow :
          ((~CoercesToPositive(editForm.amount) \/ AfterToday(editForm.date, now))
              /\ SaveStep(id)) =>
              /\ expenses' = expenses
              /\ IsErrorReport(reported')
              /\ editingId' = editingId
              /\ editForm' = editForm]_vars

(* C6: starting from the empty collection, every stored record always has  *)
(* a non-empty title, a numeric amount > 0, a well-formed date not later   *)
(* than today and a non-empty category.                                    *)
C6_StoredRecordsValid ==
    \A i \in 1..Len(expenses) : RecordInvariant(expenses[i], now)

(* C7: no two records of the collection ever have the same id.             *)
C7_IdsUnique ==
    \A i, j \in 1..Len(expenses) : i # j => expenses[i].id # expenses[j].id

-----------------------------------------------------------------------------
-----------------------------------------------------------------------------
\* the record took the values of the edit form
TookFormValues(e, form, v) ==
    /\ e.title = form.title
    /\ Number(e.amount) = Number(form.amount)
    /\ e.date = form.date
    /\ e.category = form.category
    /\ v = "multitype" => e.type = form.type
    /\ v = "latest" => e.notes = form.notes

(* C8: saveEdit with a valid amount and date succeeds, and a successful    *)
(* saveEdit replaces the records whose id matches in place (same id, same  *)
(* position, the edited values), leaves every other record and the length  *)
(* unchanged, and with no matching id changes nothing and raises no error. *)
C8_SaveReplacesInPlace ==
    [][\A id \in 1..MaxNow :
          SaveStep(id) =>
              /\ (CoercesToPositive(editForm.amount)
                     /\ NotAfterToday(editForm.date, now)) => last'.done
              /\ last'.done =>
                    /\ Len(expenses') = Len(expenses)
                    /\ \A i \in 1..Len(expenses) :
                          IF expenses[i].id = id
                          THEN /\ expenses'[i].id = id
                               /\ TookFormValues(expenses'[i], editForm, variant)
                          ELSE expenses'[i] = expenses[i]
                    /\ ~IsErrorReport(reported')]_vars

\* an edit has just been saved into one of two records with different ids
C8_Witness ==
    /\ last.op = "saveEdit" /\ last.done
    /\ Len(expenses) = 2
    /\ \E i, j \in 1..2 :
          /\ expenses[i].id = last.id
          /\ expenses[i].category = "Rent"
          /\ expenses[j].id # last.id
          /\ expenses[j].category = "Food"

-----------------------------------------------------------------------------
\* the records of seq whose id is not id, in order
RECURSIVE Without(_, _)
Without(seq, id) ==
    IF seq = <<>> THEN <<>>
    ELSE IF Head(seq).id = id THEN Without(Tail(seq), id)
    ELSE <<Head(seq)>> \o Without(Tail(seq), id)

(* C9, as claimed: deleteExpense(id) removes the records with that id and  *)
(* no other, keeps the order of the rest, and changes nothing and raises   *)
(* no error when no record has the id.                                     *)
C9_DeleteRemovesTheRecord ==
    [][\A id \in 1..MaxNow, confirmed \in BOOLEAN :
          deleteExpense(id, confirmed) =>
              /\ expenses' = Without(expenses, id)
              /\ id \notin Ids(expenses')
              /\ ~IsErrorReport(reported')]_vars

(* C9, amended: the same, in the latest variant once the user has accepted *)
(* the confirmation; when it is declined the collection and its persisted  *)
(* copy are unchanged.                                                     *)
C9_DeleteRemovesOnceConfirmed ==
    [][\A id \in 1..MaxNow, confirmed \in BOOLEAN :
          deleteExpense(id, confirmed) =>
              IF variant = "latest" /\ ~confirmed
              THEN expenses' = expenses /\ stored' = stored
              ELSE /\ expenses' = Without(expenses, id)
                   /\ id \notin Ids(expenses')
                   /\ id \notin Ids(expenses) => expenses' = expenses
                   /\ ~IsErrorReport(reported')]_vars

\* a delete has just removed its record and left another one in place
C9_Witness ==
    /\ last.op = "deleteExpense" /\ last.done
    /\ last.id \notin Ids(expenses)
    /\ Len(expenses) = 1
    /\ last.id < expenses[1].id

-----------------------------------------------------------------------------
(* C10: clearAll empties the collection when the user accepts the          *)
(* confirmation, and leaves the collection and its persisted copy          *)
(* unchanged when the user declines it.                                    *)
C10_ClearOnlyWhenConfirmed ==
    [][\A confirmed \in BOOLEAN :
          clearAll(confirmed) =>
              IF confirmed
              THEN expenses' = <<>>
              ELSE expenses' = expenses /\ stored' = stored]_vars

\* a confirmed clear has just emptied a collection that held the edited record
C10_Witness ==
    /\ last.op = "clearAll" /\ last.done
    /\ expenses = <<>>
    /\ editingId # NoId

-----------------------------------------------------------------------------
(* C11: once a mutation and its storage effect have completed, the value   *)
(* under the key "expenses" is the JSON encoding of exactly the current    *)
(* collection; after a confirmed clear it is the empty collection.         *)
C11_StoredIsCurrentCollection ==
    /\ stored.present
    /\ stored.text = JSONstringify(expenses)
    /\ (last.op = "clearAll" /\ last.done) => stored.text = <<>>

\* a confirmed clear in a variant whose handler removes the key first
C11_Witness ==
    /\ last.op = "clearAll" /\ last.done
    /\ variant \in {"basic", "validated"}
    /\ stored = [present |-> TRUE, text |-> <<>>]
    /\ editingId = NoId

-----------------------------------------------------------------------------
\* after is before, except that the multi-type variant has given the type
\* "expense" to the records that had none
SameExceptMissingType(before, after) ==
    /\ Len(after) = Len(before)
    /\ \A i \in 1..Len(before) :
          after[i] = IF variant = "multitype"
                        /\ before[i].type \in {Undefined, ""}
                     THEN [before[i] EXCEPT !.type = "expense"]
                     ELSE before[i]

(* C12: a page reload yields the collection held before it -- same records,*)
(* same order, same field values -- and the first load of the session      *)
(* yields what the key held, except that the multi-type variant gives a    *)
(* record without a type the type "expense" and changes nothing else.      *)
C12_ReloadKeepsCollection ==
    [][/\ Reload => SameExceptMissingType(expenses, expenses')
       /\ (last.op = "init" /\ expenses # <<>>) =>
              SameExceptMissingType(LegacyItem.text, expenses)]_vars

\* a reload has just brought back two records, one of them edited before
C12_Witness ==
    /\ last.op = "reload"
    /\ Len(expenses) = 2
    /\ \E i \in 1..2 : expenses[i].category = "Rent"

-----------------------------------------------------------------------------
\* position in the collection of the record with this id
PositionOf(id) == CHOOSE i \in 1..Len(expenses) : expenses[i].id = id

(* C13: in every variant, when a sort field is chosen, the sort is stable: *)
(* in both directions, two records of the view with equal sort keys appear *)
(* in the same relative order as in the collection.                        *)
C13_SortIsStable ==
    \A r \in ViewOutcomes :
        (r.ok /\ sortBy # "") =>
            \A i, j \in 1..Len(r.view) :
                (i < j /\ SortKey(variant, sortBy, r.view[i])
                            = SortKey(variant, sortBy, r.view[j]))
                    => PositionOf(r.view[i].id) < PositionOf(r.view[j].id)

-----------------------------------------------------------------------------
\* the month component of a date string, "" when it has none
MonthComponent(d) == IF InvalidDate(d) THEN "" ELSE TwoDigits(DateFields(d).m)

\* the ids of a sequence of records, and the sum of the amounts of the
\* records of the collection whose id is in S
RECURSIVE SumOfIds(_)
SumOfIds(S) ==
    IF S = {} THEN 0
    ELSE LET id == CHOOSE x \in S : TRUE
         IN  AmountValue(expenses[PositionOf(id)]) + SumOfIds(S \ {id})

\* the records of the collection dated in month M
InMonth(M) ==
    {expenses[i].id : i \in {k \in 1..Len(expenses) :
                                MonthComponent(expenses[k].date) = M}}

(* C14: with a month M selected, no search text and no type filter, the    *)
(* view holds exactly the records whose date has month component M, and    *)
(* totalAmount and byCategory are computed over those records only.        *)
C14_MonthFilterSelectsMonth ==
    \A r \in ViewOutcomes :
        (r.ok /\ selectedMonth # "" /\ search = ""
              /\ filterType \in {"all", Undefined}) =>
            /\ Ids(r.view) = InMonth(selectedMonth)
            /\ Len(r.view) = Cardinality(InMonth(selectedMonth))
            /\ variant # "multitype" =>
                  /\ r.totalAmount = SumOfIds(InMonth(selectedMonth))
                  /\ \A i \in 1..Len(r.pieData) :
                        r.pieData[i].value =
                            SumOfIds({id \in InMonth(selectedMonth) :
                                expenses[PositionOf(id)].category
                                    = r.pieData[i].name})

-----------------------------------------------------------------------------
\* text contains q as a substring when letter case is ignored
ContainsIgnoringCase(text, q) ==
    \E k \in 0..(Len(Chars(text)) - Len(Chars(q))) :
        toLowerCase(SubSeq(Chars(text), k + 1, k + Len(Chars(q))))
            = toLowerCase(Chars(q))

\* the record matches the search text q in variant v
Matches(v, e, q) ==
    \/ ContainsIgnoringCase(e.title, q)
    \/ /\ v = "latest"
       /\ \/ ContainsIgnoringCase(e.category, q)
          \/ e.notes # Undefined /\ ContainsIgnoringCase(e.notes, q)

\* the records that pass the month filter and the type filter
PassMonthAndType ==
    TypeFilter(variant, MonthFilter(variant, expenses, selectedMonth, timeZone),
               filterType)

(* C15: with a search text that is not only whitespace, the view holds     *)
(* exactly the records, among those passing the month and type filters,    *)
(* whose title contains the text case-insensitively (latest: or whose      *)
(* category or notes do); an empty or whitespace-only text excludes none.  *)
C15_SearchMatchesSubstring ==
    \A r \in ViewOutcomes :
        r.ok =>
            /\ Len(r.view) = Cardinality(Ids(r.view))
            /\ Ids(r.view) =
                  IF \A i \in 1..Len(Chars(search)) : Chars(search)[i] = " "
                  THEN Ids(PassMonthAndType)
                  ELSE {PassMonthAndType[i].id : i \in
                          {k \in 1..Len(PassMonthAndType) :
                              Matches(variant, PassMonthAndType[k], search)}}

\* the latest variant shows a record found through its category only, and
\* leaves out a saved record that has the text nowhere
C15_Witness ==
    /\ variant = "latest" /\ search = "o"
    /\ selectedMonth = ""
    /\ \E r \in ViewOutcomes :
          /\ r.ok
          /\ Len(r.view) < Len(expenses)
          /\ \E i \in 1..Len(r.view) :
                r.view[i].title = "Tea" /\ r.view[i].category = "Food"

-----------------------------------------------------------------------------
\* no month filter, no type filter, no search text
Unfiltered ==
    /\ selectedMonth = ""
    /\ filterType \in {"all", Undefined}
    /\ \A i \in 1..Len(Chars(search)) : Chars(search)[i] = " "

(* C16: totalAmount (basic, validated and latest compute it) is the sum of *)
(* the amounts of the records of the view, and with no month filter, no    *)
(* type filter and no search text it is the sum of the amounts of all the  *)
(* records of the collection, whatever sort is selected.                   *)
C16_TotalIsSumOverView ==
    \A r \in ViewOutcomes :
        (r.ok /\ variant # "multitype") =>
            /\ r.totalAmount = SumOfIds(Ids(r.view))
            /\ Unfiltered => r.totalAmount = SumOfIds(Ids(expenses))

\* the basic variant, whose amounts are strings, totals three records
\* sorted by amount
C16_Witness ==
    /\ variant = "basic" /\ sortBy = "amount" /\ Unfiltered
    /\ Len(expenses) = 3
    /\ \E r \in ViewOutcomes : r.ok /\ r.totalAmount = 19

-----------------------------------------------------------------------------
\* the categories of the view in order of first occurrence
RECURSIVE FirstOccurrences(_)
FirstOccurrences(view) ==
    IF view = <<>> THEN <<>>
    ELSE LET rest == FirstOccurrences(SubSeq(view, 1, Len(view) - 1))
             c == view[Len(view)].category
         IN  IF \E i \in 1..Len(rest) : rest[i] = c THEN rest
             ELSE Append(rest, c)

(* C17: byCategory (pieData) has exactly one entry per distinct category   *)
(* of the view, in order of first occurrence in the view, each with the    *)
(* sum of the amounts of the view's records of that category.              *)
C17_ByCategoryFirstSeenOrder ==
    \A r \in ViewOutcomes :
        r.ok =>
            /\ [i \in 1..Len(r.pieData) |-> r.pieData[i].name]
                  = FirstOccurrences(r.view)
            /\ \A i \in 1..Len(r.pieData) :
                  r.pieData[i].value =
                      SumOfIds({id \in Ids(r.view) :
                          expenses[PositionOf(id)].category = r.pieData[i].name})

-----------------------------------------------------------------------------
\* the records of the view whose date is well formed
Dated(view) == SelectSeq(view, LAMBDA e : ~InvalidDate(e.date))

\* the ids of the view's records dated in the month of key k
IdsInMonthKey(view, k) ==
    {view[i].id : i \in {j \in 1..Len(view) :
                            ~InvalidDate(view[j].date)
                                /\ MonthKey(view[j].date) = k}}

(* C18: in every variant, byMonth (barData) has one entry per distinct     *)
(* YYYY-MM key of the view's records, holding the sum of the amounts of    *)
(* that month (per type in the multi-type variant), and the entries are in *)
(* ascending order of month key however the records were added or sorted.  *)
C18_ByMonthAscending ==
    \A r \in ViewOutcomes :
        r.ok =>
            /\ {r.barData[i].month : i \in 1..Len(r.barData)}
                  = {MonthKey(Dated(r.view)[i].date) :
                        i \in 1..Len(Dated(r.view))}
            /\ \A i, j \in 1..Len(r.barData) :
                  i < j => MonthKeyRank(r.barData[i].month)
                              < MonthKeyRank(r.barData[j].month)
            /\ \A i \in 1..Len(r.barData) :
                  /\ r.barData[i].total
                        = SumOfIds(IdsInMonthKey(r.view, r.barData[i].month))
                  /\ variant = "multitype" =>
                        \A t \in Types :
                            r.barData[i][t] =
                                SumOfIds({id \in IdsInMonthKey(r.view,
                                                    r.barData[i].month) :
                                    expenses[PositionOf(id)].type = t})

-----------------------------------------------------------------------------
\* the ids of the view's records of type t; no type counts as "expense"
IdsOfType(view, t) ==
    {view[i].id : i \in {j \in 1..Len(view) :
        IF view[j].type \in {Undefined, ""} THEN t = "expense"
        ELSE view[j].type = t}}

(* C19: in the multi-type variant netBalance is the sum of the amounts of  *)
(* the income records of the view, minus that of its expense records       *)
(* (records without a type included), minus that of its investment records.*)
C19_NetBalance ==
    \A r \in ViewOutcomes :
        (r.ok /\ variant = "multitype") =>
            r.netBalance = SumOfIds(IdsOfType(r.view, "income"))
                            - SumOfIds(IdsOfType(r.view, "expense"))
                            - SumOfIds(IdsOfType(r.view, "investment"))

\* one record of each type is in view, sorted by date, one of them loaded
\* without a type, and the balance is negative
C19_Witness ==
    /\ variant = "multitype" /\ Unfiltered
    /\ sortBy = "date" /\ sortDir = "desc"
    /\ \E i \in 1..Len(expenses) :
          expenses[i].title = "Bus" /\ expenses[i].type = "expense"
    /\ \E r \in ViewOutcomes :
          /\ r.ok /\ Len(r.view) = 3
          /\ \A t \in Types : IdsOfType(r.view, t) # {}
          /\ r.netBalance = 0 - 5

-----------------------------------------------------------------------------
(* C20: in every variant the view computation completes without error,    *)
(* a record whose date is missing, empty or malformed gets no bucket in    *)
(* the month-bucketed aggregates, and it still appears in the view when no *)
(* filter is selected.                                                     *)
C20_UndatedRecordsStayInView ==
    \A r \in ViewOutcomes :
        /\ r.ok
        /\ \A i \in 1..Len(r.barData) : r.barData[i].month # ""
        /\ Unfiltered =>
              \A i \in 1..Len(expenses) :
                  InvalidDate(expenses[i].date) =>
                      expenses[i].id \in Ids(r.view)

-----------------------------------------------------------------------------
(* C21: a successful import replaces the collection in one step with       *)
(* exactly the `expenses` array of the file, whatever handlers ran between *)
(* choosing the file and the load callback: no earlier record remains and  *)
(* nothing is merged; the persisted copy follows in the same step.         *)
C21_ImportReplacesCollection ==
    [][(readerOnload /\ reader.json /\ reader.hasExpenses) =>
          /\ expenses' = reader.expenses
          /\ stored' = StorageEffect(reader.expenses)]_vars

\* the load callback has replaced a collection that held the record added at
\* the second tick, which was being edited
C21_Witness ==
    /\ last.op = "readerOnload" /\ last.done
    /\ editingId = 2
    /\ Ids(expenses) = {1}

-----------------------------------------------------------------------------
(* C22: the import of a file that is not JSON, or whose document has no    *)
(* `expenses` member, reports an error to the user and leaves the          *)
(* collection, the budget and the persisted copy as they were.             *)
C22_BadImportReportedAndIgnored ==
    [][(readerOnload /\ (~reader.json \/ ~reader.hasExpenses)) =>
          /\ IsErrorReport(reported')
          /\ UNCHANGED <<expenses, stored, monthlyBudget>>]_vars

-----------------------------------------------------------------------------
-----------------------------------------------------------------------------
(* C27: in every reachable state the edit state is idle, or it names a     *)
(* record that is in the collection.                                       *)
C27_EditingIdInCollection ==
    editingId = NoId \/ editingId \in Ids(expenses)

-----------------------------------------------------------------------------
\* the transaction type of a record; a record without a type is an expense
TypeOf(e) == IF e.type \in Types THEN e.type ELSE "expense"

\* the records that pass the month filter and the search
PassMonthAndSearch ==
    SearchFilter(variant,
                 MonthFilter(variant, expenses, selectedMonth, timeZone),
                 search)

-----------------------------------------------------------------------------
\* the letters in alphabetical order
Alphabet ==
    <<"a", "b", "c", "d", "e", "f", "g", "h", "i", "j", "k", "l", "m",
      "n", "o", "p", "q", "r", "s", "t", "u", "v", "w", "x", "y", "z">>

LetterIndex(c) == CHOOSE i \in 1..Len(Alphabet) : Alphabet[i] = c

\* s is not after t in the dictionary: letters compared without case
RECURSIVE NotAfterInDictionary(_, _)
NotAfterInDictionary(s, t) ==
    IF s = <<>> THEN TRUE
    ELSE IF t = <<>> THEN FALSE
    ELSE LET a == LetterIndex(toLowerCase(s)[1])
             b == LetterIndex(toLowerCase(t)[1])
         IN  IF a # b THEN a < b
             ELSE NotAfterInDictionary(Tail(s), Tail(t))

\* the day within its year, months counted as 31 days
DayOfMonthYear(d) == DateFields(d).m * 31 + DateFields(d).d

\* a may stand before b in a list ascending by the sort field: amounts as
\* numbers, dates by the calendar (a record without a date has no place
\* in time), titles by the dictionary
MayPrecede(by, a, b) ==
    IF by = "amount" THEN AmountValue(a) <= AmountValue(b)
    ELSE IF by = "title"
    THEN NotAfterInDictionary(Chars(a.title), Chars(b.title))
    ELSE \/ InvalidDate(a.date) \/ InvalidDate(b.date)
         \/ DateFields(a.date).y < DateFields(b.date).y
         \/ /\ DateFields(a.date).y = DateFields(b.date).y
            /\ DayOfMonthYear(a.date) <= DayOfMonthYear(b.date)

\* the records the filters let through, in collection order
PassAllFilters ==
    Filtered(variant, expenses, selectedMonth, filterType, search, timeZone)

(* C25: in every variant the view is a permutation of exactly the records  *)
(* the active filters let through; with a sort field chosen it is ordered  *)
(* by that field (amount as a number, date by the calendar, title by the   *)
(* dictionary), non-decreasing for "asc" and non-increasing for "desc";    *)
(* with no sort field it keeps the order of the collection.                *)
C25_ViewIsSortedPermutation ==
    \A r \in ViewOutcomes :
        r.ok =>
            /\ Len(r.view) = Len(PassAllFilters)
            /\ \E p \in Orders(Len(PassAllFilters)) :
                  \A i \in 1..Len(r.view) : r.view[i] = PassAllFilters[p[i]]
            /\ (variant # "latest" /\ sortBy = "") => r.view = PassAllFilters
            /\ (variant = "latest" \/ sortBy # "") =>
                  \A i, j \in 1..Len(r.view) :
                      i < j =>
                          IF sortDir = "asc"
                          THEN MayPrecede(sortBy, r.view[i], r.view[j])
                          ELSE MayPrecede(sortBy, r.view[j], r.view[i])

\* three saved records with three titles are shown in dictionary order,
\* which is not the order of the collection
C25_Witness ==
    /\ variant = "latest" /\ sortBy = "title" /\ sortDir = "asc"
    /\ \E r \in ViewOutcomes :
          /\ r.ok
          /\ Len(r.view) = 3
          /\ Cardinality({r.view[i].title : i \in 1..3}) = 3
          /\ r.view # PassAllFilters

-----------------------------------------------------------------------------
\* the week-start keys of the view, oldest first
WeekKeysOfView(view) ==
    Ascending({WeekStartDay(view[i].date, timeZone) : i \in 1..Len(view)})

(* C26: with the weekly time range the chart of the latest variant holds   *)
(* the last twelve weeks: when the view spans more than twelve week        *)
(* buckets it holds the twelve buckets with the greatest week-start keys,  *)
(* in ascending order, each with the sum of the amounts of that week; with *)
(* twelve buckets or fewer it holds them all.                              *)
C26_WeeklyChartLastTwelveWeeks ==
    (variant = "latest" /\ timeRange = "weekly") =>
        \A r \in ViewOutcomes :
            r.ok =>
                LET keys == WeekKeysOfView(r.view)
                    n == Len(keys)
                    recent == IF n > 12 THEN SubSeq(keys, n - 11, n) ELSE keys
                IN  r.barData =
                        [i \in 1..Len(recent) |->
                            [week |-> ISODate(FieldsOfDay(recent[i])),
                             total |-> SumAmounts(SelectSeq(r.view,
                                 LAMBDA e : WeekStartDay(e.date, timeZone)
                                                = recent[i]))]]

-----------------------------------------------------------------------------
(* C28: a notification stays on screen with its message until three        *)
(* seconds after it was raised, unless a newer one replaces it: a hide     *)
(* timer that runs while a notification is shown is the timer of that      *)
(* notification, the last one started, and not one started for an earlier  *)
(* notification.                                                           *)
C28_NotificationShownThreeSeconds ==
    [][(hideTimer /\ notification.show) =>
          timers[Len(timers)].due <= now]_vars

-----------------------------------------------------------------------------
(* C29: the budget alert raised after a change agrees with the budget card *)
(* shown, whose percentage is the spending of the current calendar year    *)
(* and month over the monthly budget: a warning exactly when the           *)
(* percentage is at least 90 and below 100, an over-budget error exactly   *)
(* when it is at least 100, no alert otherwise.                            *)
C29_BudgetAlertAgreesWithStatus ==
    (last.op = "setMonthlyBudget" /\ ~Throws(variant, expenses)) =>
        LET p == BudgetStatus(expenses, monthlyBudget, now).percentage
            atLeast(k) == IF p.den = 0 THEN p.num > 0
                          ELSE p.num >= k * p.den
        IN  /\ (reported.type = "warning") <=> (atLeast(90) /\ ~atLeast(100))
            /\ (reported.type = "error") <=> atLeast(100)
            /\ (reported = NoReport) <=> ~atLeast(90)

-----------------------------------------------------------------------------
\* the sum of one field over the month buckets of the bar chart
RECURSIVE SumOfBuckets(_, _)
SumOfBuckets(bar, field) ==
    IF bar = <<>> THEN 0 ELSE Head(bar)[field] + SumOfBuckets(Tail(bar), field)

(* C30: in the multi-type variant the three per-type lists partition the   *)
(* view, the three card totals add up to the sum of all amounts of the     *)
(* view, and each card total equals the sum of the month buckets of its    *)
(* type in the bar chart.                                                  *)
C30_TypeTotalsMatchViewAndChart ==
    variant = "multitype" =>
        \A r \in ViewOutcomes :
            r.ok =>
                /\ \A i \in 1..Len(r.view) :
                      Cardinality({l \in {"e", "i", "v"} :
                          r.view[i].id \in
                              Ids(CASE l = "e" -> expenseView(r.view)
                                    [] l = "i" -> incomeView(r.view)
                                    [] l = "v" -> investmentView(r.view))}) = 1
                /\ Len(expenseView(r.view)) + Len(incomeView(r.view))
                      + Len(investmentView(r.view)) = Len(r.view)
                /\ totalIncome(r.view) + totalExpenses(r.view)
                      + totalInvestment(r.view) = SumAmounts(r.view)
                /\ totalExpenses(r.view) = SumOfBuckets(r.barData, "expense")
                /\ totalIncome(r.view) = SumOfBuckets(r.barData, "income")
                /\ totalInvestment(r.view)
                      = SumOfBuckets(r.barData, "investment")

====
